---- MODULE Spec2Model ----
(***************************************************************************)
(* esridump command line (src/esridump/cli.py): one invocation of main()   *)
(* drains an EsriDumper cursor into an output file opened in append mode   *)
(* and, with -c/--to-continue, keeps a checkpoint in '<outfile>.state'.    *)
(*                                                                         *)
(* main() is modelled statement by statement from cli.py.  The extraction  *)
(* engine it drives (esridump.EsriDumper, esridump.state.DumperState) is   *)
(* imported by cli.py but its code is not part of src/; it is modelled     *)
(* from spec.md sections 3, 4 and 7.                                       *)
(***************************************************************************)
EXTENDS Integers, Sequences, FiniteSets, TLC

VARIABLES
    env,        \* the unchanged remote service and the options kept over all runs
    outfile,    \* content of the output file: a sequence of written chunks
    statefile,  \* '<outfile>.state': [exists, text]
    pc,         \* position of main()
    args,       \* parsed options of the current run: -c, and the fingerprint
                \* of url, fields and geometry request
    strategy,   \* the pagination strategy this run's flag and probe select
    dumper,     \* the live EsriDumper cursor of the current run
    feature,    \* main's local variable `feature`
    result,     \* how the last invocation of main() ended
    log,        \* one entry per run that entered the try block
    state,      \* main's local variable `state`: the checkpoint handed to EsriDumper
    yielded,    \* ids yielded by the cursor in the current run
    reqs,       \* page requests issued by the cursor in the current run
    pages       \* identifier sets of the last two pages received in the current run

vars == <<env, outfile, statefile, pc, args, strategy, dumper, feature, result,
          log, state, yielded, reqs, pages>>

-----------------------------------------------------------------------------
(* Bounds of the model *)

MaxTotal == 3
MaxPage == 2
MaxRuns == 2

\* The histories and the offset are capped so that a service that never lets
\* the cursor end still gives a finite state space.  Against a service that
\* honours the offset no run comes near a cap: it yields at most MaxTotal
\* records, issues at most MaxTotal + 1 requests and never passes offset
\* MaxTotal.
ReqCap == MaxTotal + 2
YieldCap == MaxTotal + 1
OffsetCap == MaxTotal + 1

Min(a, b) == IF a < b THEN a ELSE b
Max(a, b) == IF a > b THEN a ELSE b

Range(s) == {s[i] : i \in 1..Len(s)}

\* the ascending sequence lo, lo+1, ..., hi (empty when hi < lo)
Interval(lo, hi) == [i \in 1..Max(hi - lo + 1, 0) |-> lo + i - 1]

RECURSIVE SortedSeq(_)
SortedSeq(S) ==
    IF S = {} THEN <<>>
    ELSE LET m == CHOOSE x \in S : \A y \in S : x <= y
         IN  <<m>> \o SortedSeq(S \ {m})

Configs == {1, 2}

-----------------------------------------------------------------------------
(* Output chunks: what one outfile.write() call appends *)

HEADER == [kind |-> "header", id |-> 0]
SEP == [kind |-> "sep", id |-> 0]
NEWLINE == [kind |-> "nl", id |-> 0]
FOOTER == [kind |-> "footer", id |-> 0]
JsonDumps(f) == [kind |-> "feature", id |-> f]

-----------------------------------------------------------------------------
(* The remote service (spec.md 4.3, 6) *)

\* the server's exhaustive, sorted identifier set
AllOids(e) == Interval(1, e.total)

OffsetRequest(offset, n) ==
    [mode |-> "offset", offset |-> offset, n |-> n, chunk |-> <<>>]
OidRequest(chunk) ==
    [mode |-> "oid", offset |-> 0, n |-> Len(chunk), chunk |-> chunk]

\* the responses the service may give to a page request: the identifiers of
\* the returned records and the explicit "no more records" indicator, which
\* a service is free to leave out.  The "arbitrary" service does not honour
\* the requested offset at all.
Responses(e, rq) ==
    IF rq.mode = "oid"
    THEN {[ids |-> rq.chunk, nomore |-> FALSE]}
    ELSE IF e.svc = "arbitrary"
    THEN {[ids |-> SortedSeq(S), nomore |-> FALSE] :
            S \in {T \in SUBSET (1..e.total) : Cardinality(T) <= rq.n}}
    ELSE {[ids |-> Interval(rq.offset + 1, Min(rq.offset + rq.n, e.total)),
           nomore |-> m] :
            m \in {FALSE, rq.offset + rq.n >= e.total}}

-----------------------------------------------------------------------------
(* CheckpointState and its text form (spec.md 3, 4.4) *)

FormatVersion == 1

NoState ==
    [ver |-> 0, mode |-> "none", fp |-> 0, offset |-> 0, batch |-> 0, oids |-> <<>>]

OffsetState(fp, offset) ==
    [ver |-> FormatVersion, mode |-> "offset", fp |-> fp, offset |-> offset,
     batch |-> 0, oids |-> <<>>]

OidState(fp, oids, batch) ==
    [ver |-> FormatVersion, mode |-> "oid", fp |-> fp, offset |-> 0,
     batch |-> batch, oids |-> oids]

ModeCode(mode) == IF mode = "offset" THEN 0 ELSE 1
ModeOfCode(c) == IF c = 0 THEN "offset" ELSE "oid"

\* encode: version, strategy tag, fingerprint, offset, batch size, then the
\* outstanding identifiers prefixed by their number
Encode(s) ==
    <<s.ver, ModeCode(s.mode), s.fp, s.offset, s.batch, Len(s.oids)>> \o s.oids

Decode(t) ==
    IF Len(t) < 6 THEN [err |-> "StateCorrupt", state |-> NoState]
    ELSE IF t[1] # FormatVersion
    THEN [err |-> "StateVersionMismatch", state |-> NoState]
    ELSE IF \/ t[2] \notin {0, 1}
            \/ t[6] < 0
            \/ Len(t) # 6 + t[6]
            \/ \E i \in 3..Len(t) : t[i] < 0
    THEN [err |-> "StateCorrupt", state |-> NoState]
    ELSE [err |-> "none",
          state |-> [ver |-> t[1], mode |-> ModeOfCode(t[2]), fp |-> t[3],
                     offset |-> t[4], batch |-> t[5],
                     oids |-> SubSeq(t, 7, Len(t))]]

-----------------------------------------------------------------------------
(* The extraction engine (spec.md 4.1 - 4.3) *)

DefaultPageSize == 1000

PageSizeUnclipped(max_page_size, max_record_count) ==
    IF max_page_size > 0
    THEN max_page_size
    ELSE Max(max_record_count, DefaultPageSize)

PageSize(max_page_size, max_record_count) ==
    IF max_page_size > 0
    THEN Min(max_page_size, max_record_count)
    ELSE Max(max_record_count, DefaultPageSize)

SelectStrategy(paginate_oid, c) ==
    IF paginate_oid \/ ~c.offset
    THEN (IF c.oidField THEN "oid" ELSE "unsupported")
    ELSE "offset"

\* a cursor: the checkpointable position `st`, the records of the current
\* page not yet yielded, the size of the current page still to be counted
\* into the position, and the identifiers of the previous page
Cursor(st, ps) ==
    [st |-> st, ps |-> ps, buf |-> <<>>, pend |-> 0, last |-> FALSE,
     page |-> {}, prev |-> {}, err |-> "none"]

NoCursor == Cursor(NoState, 0)

\* EsriDumper(url, state=..., paginate_oid=..., max_page_size=...): a given
\* checkpoint fixes strategy and position, else the selected strategy starts
\* from the beginning
\* cfg is the fingerprint of the run's url, fields and geometry request
NewDumperAnyConfig(e, cfg, strat, ckpt) ==
    LET ps == PageSize(e.max_page_size, e.max_record_count)
    IN  IF ckpt # NoState
        THEN Cursor(ckpt, ps)
        ELSE IF strat = "unsupported"
        THEN [NoCursor EXCEPT !.err = "UnsupportedPagination"]
        ELSE IF strat = "oid"
        THEN Cursor(OidState(cfg, AllOids(e), ps), ps)
        ELSE Cursor(OffsetState(cfg, 0), ps)

NewDumper(e, cfg, strat, ckpt) ==
    LET ps == PageSize(e.max_page_size, e.max_record_count)
    IN  IF ckpt # NoState
        THEN IF ckpt.fp # cfg
             THEN [NoCursor EXCEPT !.err = "ConfigMismatch"]
             ELSE Cursor(ckpt, ps)
        ELSE IF strat = "unsupported"
        THEN [NoCursor EXCEPT !.err = "UnsupportedPagination"]
        ELSE IF strat = "oid"
        THEN Cursor(OidState(cfg, AllOids(e), ps), ps)
        ELSE Cursor(OffsetState(cfg, 0), ps)

\* the request the cursor issues next from position st
PageRequestOverlapping(d) ==
    IF d.st.mode = "oid"
    THEN OidRequest(SubSeq(d.st.oids, 1, Min(d.st.batch + 1, Len(d.st.oids))))
    ELSE OffsetRequest(d.st.offset, d.ps)

PageRequest(d) ==
    IF d.st.mode = "oid"
    THEN OidRequest(SubSeq(d.st.oids, 1, Min(d.st.batch, Len(d.st.oids))))
    ELSE OffsetRequest(d.st.offset, d.ps)

\* a page that was fetched and yielded is counted into the position
Advance(st, n) ==
    IF st.mode = "oid"
    THEN [st EXCEPT !.oids = SubSeq(st.oids, n + 1, Len(st.oids))]
    ELSE [st EXCEPT !.offset = Min(st.offset + n, OffsetCap)]

Commit(d) ==
    IF d.pend = 0 THEN d
    ELSE [d EXCEPT !.st = Advance(d.st, d.pend), !.pend = 0, !.prev = d.page,
                   !.page = {}]

\* no further request is to be made
Exhausted(d) ==
    IF d.st.mode = "oid" THEN d.st.oids = <<>> ELSE d.last

\* all identifiers of a non-empty page were in the previous page
StalledNever(d, ids) == FALSE

Stalled(d, ids) ==
    d.st.mode = "offset" /\ ids # <<>> /\ Range(ids) \subseteq d.prev

\* the cursor takes in a page: [d |-> cursor, out |-> "yield" | "stop" | error]
Receive(d, r) ==
    IF r.ids = <<>>
    THEN [d |-> [d EXCEPT !.last = TRUE], out |-> "stop", f |-> 0]
    ELSE IF Stalled(d, r.ids)
    THEN [d |-> [d EXCEPT !.err = "PaginationStalled"],
          out |-> "PaginationStalled", f |-> 0]
    ELSE [d |-> [d EXCEPT !.buf = Tail(r.ids), !.pend = Len(r.ids),
                          !.page = Range(r.ids),
                          !.last = (Len(r.ids) < d.ps \/ r.nomore)],
          out |-> "yield", f |-> Head(r.ids)]

-----------------------------------------------------------------------------
(* The files *)

NoFile == [exists |-> FALSE, text |-> <<>>]
File(text) == [exists |-> TRUE, text |-> text]

\* open(state_filename, 'w'); f.write(text): the old content is replaced
WriteStateFileAppending(old, text) == File(old.text \o text)

WriteStateFile(old, text) == File(text)

-----------------------------------------------------------------------------
(* Initial state: nothing has run yet, the output file is empty *)

Envs(svcs, sizes, formats) ==
    [total : 0..MaxTotal,
     max_record_count : {MaxPage},
     max_page_size : sizes,
     svc : svcs,
     jsonlines : formats]

NoArgs == [to_continue |-> FALSE, cfg |-> 1]

InitRest ==
    /\ outfile = <<>>
    /\ statefile = NoFile
    /\ pc = "idle"
    /\ args = NoArgs
    /\ strategy = "none"
    /\ dumper = NoCursor
    /\ feature = 0
    /\ result = "none"
    /\ log = <<>>
    /\ state = NoState
    /\ yielded = <<>>
    /\ reqs = <<>>
    /\ pages = <<>>

\* the page size is the smallest or the largest the service allows
Init ==
    /\ env \in Envs({"good"}, {1, MaxPage}, BOOLEAN)
    /\ InitRest

-----------------------------------------------------------------------------
(* main(), lines 98-150: options, the state file, the cursor *)

\* lines 101-123: the checkpoint to resume from, or the refusal to start
\* [exit |-> "none" | "exit1" | decode error, state |-> checkpoint or NoState]
LoadStateIgnoringDamage(a) ==
    IF a.to_continue
    THEN IF statefile.exists
         THEN [exit |-> "none", state |-> Decode(statefile.text).state]
         ELSE IF outfile # <<>>
         THEN [exit |-> "exit1", state |-> NoState]
         ELSE [exit |-> "none", state |-> NoState]
    ELSE IF outfile # <<>>
    THEN [exit |-> "exit1", state |-> NoState]
    ELSE [exit |-> "none", state |-> NoState]

LoadStateIgnoringOutput(a) ==
    IF a.to_continue /\ statefile.exists
    THEN LET dec == Decode(statefile.text)
         IN  [exit |-> dec.err, state |-> dec.state]
    ELSE [exit |-> "none", state |-> NoState]

LoadState(a) ==
    IF a.to_continue
    THEN IF statefile.exists
         THEN LET dec == Decode(statefile.text)
              IN  [exit |-> dec.err, state |-> dec.state]
         ELSE IF outfile # <<>>
         THEN [exit |-> "exit1", state |-> NoState]
         ELSE [exit |-> "none", state |-> NoState]
    ELSE IF outfile # <<>>
    THEN [exit |-> "exit1", state |-> NoState]
    ELSE [exit |-> "none", state |-> NoState]

TryEntry == IF env.jsonlines THEN "jnext" ELSE "hdr"

\* lines 138-150: the cursor is built from the options and the checkpoint;
\* c is what the engine's probe of the service finds
MakeDumperWithoutState(cfg, paginate_oid, c, ckpt) ==
    NewDumper(env, cfg, SelectStrategy(paginate_oid, c), NoState)

MakeDumperWithoutFlag(cfg, paginate_oid, c, ckpt) ==
    NewDumper(env, cfg, SelectStrategy(FALSE, c), ckpt)

MakeDumper(cfg, paginate_oid, c, ckpt) ==
    NewDumper(env, cfg, SelectStrategy(paginate_oid, c), ckpt)

\* configurations are numbered in the order of their first use
StartRun ==
    /\ pc = "idle"
    /\ Len(log) < MaxRuns
    /\ \E to_continue \in BOOLEAN, paginate_oid \in BOOLEAN, cfg \in Configs,
          c \in [offset : BOOLEAN, oidField : BOOLEAN] :
        LET a == [to_continue |-> to_continue, cfg |-> cfg]
            ld == LoadState(a)
            strat == SelectStrategy(paginate_oid, c)
            d == MakeDumper(cfg, paginate_oid, c, ld.state)
            exit == IF ld.exit # "none" THEN ld.exit ELSE d.err
        IN  /\ (log = <<>> /\ result = "none") => cfg = 1
            /\ args' = a
            /\ strategy' = IF exit = "none" THEN strat ELSE "none"
            /\ state' = ld.state
            /\ dumper' = IF ld.exit # "none" THEN NoCursor ELSE d
            /\ result' = exit
            /\ pc' = IF exit = "none" THEN TryEntry ELSE "idle"
    /\ feature' = 0
    /\ yielded' = <<>>
    /\ reqs' = <<>>
    /\ pages' = <<>>
    /\ UNCHANGED <<env, outfile, statefile, log>>

-----------------------------------------------------------------------------
(* next(feature_iter) / `for feature in dumper`: lines 154, 162, 165 *)

\* "iter" is a consumer that only draws from the cursor (`for f in dumper`)
IterPcs == {"first", "next", "jnext", "iter"}

AfterYield(p) ==
    IF p = "first" THEN "wfeat"
    ELSE IF p = "next" THEN "wsep"
    ELSE IF p = "jnext" THEN "jwfeat"
    ELSE "iter"

\* StopIteration: line 167, or the end of the for loop
AfterStop(p) ==
    IF p = "jnext" THEN "unlink" ELSE IF p = "iter" THEN "stopped" ELSE "wnl"

LogRequest(rq) == IF Len(reqs) < ReqCap THEN Append(reqs, rq) ELSE reqs
LogYield(f) == IF Len(yielded) < YieldCap THEN Append(yielded, f) ELSE yielded
LogPage(ids) ==
    IF Len(pages) < 2 THEN Append(pages, Range(ids)) ELSE <<pages[2], Range(ids)>>

\* a record of the current page is still to be yielded
NextBuffered ==
    /\ pc \in IterPcs
    /\ dumper.buf # <<>>
    /\ feature' = Head(dumper.buf)
    /\ yielded' = LogYield(Head(dumper.buf))
    /\ dumper' = [dumper EXCEPT !.buf = Tail(dumper.buf)]
    /\ pc' = AfterYield(pc)
    /\ UNCHANGED <<env, outfile, statefile, args, strategy, result, log, state, reqs,
                   pages>>

\* the page is used up and was the last
NextStop ==
    /\ pc \in IterPcs
    /\ dumper.buf = <<>>
    /\ Exhausted(Commit(dumper))
    /\ dumper' = Commit(dumper)
    /\ pc' = AfterStop(pc)
    /\ UNCHANGED <<env, outfile, statefile, args, strategy, feature, result, log,
                   state, yielded, reqs, pages>>

\* the page is used up: the next page is requested and arrives
NextFetch ==
    /\ pc \in IterPcs
    /\ dumper.buf = <<>>
    /\ ~Exhausted(Commit(dumper))
    /\ LET d == Commit(dumper)
           rq == PageRequest(d)
       IN  /\ reqs' = LogRequest(rq)
           /\ \E r \in Responses(env, rq) :
                LET got == Receive(d, r)
                IN  /\ dumper' = got.d
                    /\ pages' = LogPage(r.ids)
                    /\ IF got.out = "yield"
                       THEN /\ feature' = got.f
                            /\ yielded' = LogYield(got.f)
                            /\ pc' = AfterYield(pc)
                            /\ UNCHANGED result
                       ELSE IF got.out = "stop"
                       THEN /\ pc' = AfterStop(pc)
                            /\ UNCHANGED <<feature, yielded, result>>
                       ELSE /\ pc' = "except"
                            /\ result' = got.out
                            /\ UNCHANGED <<feature, yielded>>
    /\ UNCHANGED <<env, outfile, statefile, args, strategy, log, state>>

\* the next page is requested and the request fails (TransportError)
NextFetchFailAdvancing ==
    /\ pc \in IterPcs
    /\ dumper.buf = <<>>
    /\ ~Exhausted(Commit(dumper))
    /\ dumper' = [Commit(dumper) EXCEPT !.st = Advance(@, dumper.ps)]
    /\ reqs' = LogRequest(PageRequest(Commit(dumper)))
    /\ pc' = "except"
    /\ result' = "TransportError"
    /\ UNCHANGED <<env, outfile, statefile, args, strategy, feature, log, state, yielded, pages>>

NextFetchFail ==
    /\ pc \in IterPcs
    /\ dumper.buf = <<>>
    /\ ~Exhausted(Commit(dumper))
    /\ dumper' = Commit(dumper)
    /\ reqs' = LogRequest(PageRequest(Commit(dumper)))
    /\ pc' = "except"
    /\ result' = "TransportError"
    /\ UNCHANGED <<env, outfile, statefile, args, strategy, feature, log, state, yielded, pages>>

-----------------------------------------------------------------------------
(* main(), lines 152-171: writing the output *)

Write(chunk, to) ==
    /\ outfile' = Append(outfile, chunk)
    /\ pc' = to
    /\ UNCHANGED <<env, statefile, args, strategy, dumper, feature, result, log,
                   state, yielded, reqs, pages>>

\* lines 158-159: the header, unless continuing a non-empty file
WriteHeaderAlways ==
    /\ pc = "hdr"
    /\ Write(HEADER, "first")

WriteHeader ==
    /\ pc = "hdr"
    /\ IF ~args.to_continue \/ outfile = <<>>
       THEN Write(HEADER, "first")
       ELSE /\ pc' = "first"
            /\ UNCHANGED <<env, outfile, statefile, args, strategy, dumper, feature,
                           result, log, state, yielded, reqs, pages>>

\* line 164
WriteFeature ==
    /\ pc = "wfeat"
    /\ Write(JsonDumps(feature), "next")

\* line 166
WriteSeparator ==
    /\ pc = "wsep"
    /\ Write(SEP, "wfeat")

\* line 168
WriteLastNewline ==
    /\ pc = "wnl"
    /\ Write(NEWLINE, "wfoot")

\* line 169
WriteFooter ==
    /\ pc = "wfoot"
    /\ Write(FOOTER, "unlink")

\* line 155
JsonWriteFeature ==
    /\ pc = "jwfeat"
    /\ Write(JsonDumps(feature), "jwnl")

\* line 156
JsonWriteNewlineSkipped ==
    /\ pc = "jwnl"
    /\ pc' = "jnext"
    /\ UNCHANGED <<env, outfile, statefile, args, strategy, dumper, feature, result,
                   log, state, yielded, reqs, pages>>

JsonWriteNewline ==
    /\ pc = "jwnl"
    /\ Write(NEWLINE, "jnext")

NoRequest == [mode |-> "none", offset |-> 0, n |-> 0, chunk |-> <<>>]

\* history: how a run went; `st` is the cursor state the run saved, if any,
\* and `rq` the page request whose failure ended it
LogEntry(end) ==
    [c |-> args.to_continue, resumed |-> state # NoState, end |-> end,
     ids |-> yielded,
     st |-> IF args.to_continue /\ end # "ok" THEN dumper.st ELSE NoState,
     rq |-> IF args.to_continue /\ end = "TransportError"
            THEN reqs[Len(reqs)] ELSE NoRequest]

\* lines 170-171, then main returns
FinishKeepingState ==
    /\ pc = "unlink"
    /\ pc' = "idle"
    /\ result' = "ok"
    /\ log' = Append(log, LogEntry("ok"))
    /\ UNCHANGED <<env, outfile, statefile, args, strategy, dumper, feature, state,
                   yielded, reqs, pages>>

FinishUnlinkingAlways ==
    /\ pc = "unlink"
    /\ statefile' = NoFile
    /\ pc' = "idle"
    /\ result' = "ok"
    /\ log' = Append(log, LogEntry("ok"))
    /\ UNCHANGED <<env, outfile, args, strategy, dumper, feature, state, yielded, reqs, pages>>

Finish ==
    /\ pc = "unlink"
    /\ statefile' = IF args.to_continue /\ statefile.exists THEN NoFile ELSE statefile
    /\ pc' = "idle"
    /\ result' = "ok"
    /\ log' = Append(log, LogEntry("ok"))
    /\ UNCHANGED <<env, outfile, args, strategy, dumper, feature, state, yielded, reqs, pages>>

-----------------------------------------------------------------------------
(* main(), lines 172-178: any failure inside the try block *)

\* the statements of the try block that write the output file or unlink the
\* state file
WritePcs == {"hdr", "wfeat", "wsep", "wnl", "wfoot", "jwfeat", "jwnl", "unlink"}

\* such a statement raises (IOError/OSError), or the run is interrupted
\* there: the bare `except:` of line 172 catches both
RaiseInTry ==
    /\ pc \in WritePcs
    /\ pc' = "except"
    /\ result' = "WriteError"
    /\ UNCHANGED <<env, outfile, statefile, args, strategy, dumper, feature, log,
                   state, yielded, reqs, pages>>

\* lines 173-178: save the live cursor's state, then re-raise
SaveStateNever ==
    /\ pc = "except"
    /\ pc' = "idle"
    /\ log' = Append(log, LogEntry(result))
    /\ UNCHANGED <<env, outfile, statefile, args, strategy, dumper, feature, result,
                   state, yielded, reqs, pages>>

SaveStateSwallowing ==
    /\ pc = "except"
    /\ statefile' = IF args.to_continue
                    THEN WriteStateFile(statefile, Encode(dumper.st))
                    ELSE statefile
    /\ pc' = "idle"
    /\ result' = "ok"
    /\ log' = Append(log, LogEntry(result))
    /\ UNCHANGED <<env, outfile, args, strategy, dumper, feature, state, yielded,
                   reqs, pages>>

SaveState ==
    /\ pc = "except"
    /\ statefile' = IF args.to_continue
                    THEN WriteStateFile(statefile, Encode(dumper.st))
                    ELSE statefile
    /\ pc' = "idle"
    /\ log' = Append(log, LogEntry(result))
    /\ UNCHANGED <<env, outfile, args, strategy, dumper, feature, result, state,
                   yielded, reqs, pages>>

-----------------------------------------------------------------------------

\* the steps main takes by itself once started
Step ==
    \/ NextBuffered
    \/ NextStop
    \/ NextFetch
    \/ WriteHeader
    \/ WriteFeature
    \/ WriteSeparator
    \/ WriteLastNewline
    \/ WriteFooter
    \/ JsonWriteFeature
    \/ JsonWriteNewline
    \/ Finish
    \/ SaveState

Next ==
    \/ StartRun
    \/ Step
    \/ NextFetchFail
    \/ RaiseInTry

Spec == Init /\ [][Next]_vars

-----------------------------------------------------------------------------
(* The cursor on its own: a consumer that only draws records from a fresh  *)
(* cursor (`for feature in EsriDumper(url)`), against a service that may   *)
(* also ignore the requested offset.                                        *)

CursorInit ==
    /\ env \in Envs({"good", "arbitrary"}, {-1} \cup (1..MaxPage), {TRUE})
    /\ InitRest

CursorStart ==
    /\ pc = "idle"
    /\ \E paginate_oid \in BOOLEAN, c \in [offset : BOOLEAN, oidField : BOOLEAN] :
        LET strat == SelectStrategy(paginate_oid, c)
            d == NewDumper(env, 1, strat, NoState)
        IN  /\ strategy' = strat
            /\ dumper' = d
            /\ result' = d.err
            /\ pc' = IF d.err = "none" THEN "iter" ELSE "stopped"
    /\ UNCHANGED <<env, outfile, statefile, args, feature, log, state, yielded,
                   reqs, pages>>

\* the consumer keeps drawing and the service keeps answering
CursorStep ==
    \/ NextBuffered
    \/ NextStop
    \/ NextFetch

CursorNext ==
    \/ CursorStart
    \/ CursorStep
    \/ NextFetchFail

CursorSpec == CursorInit /\ [][CursorNext]_vars /\ WF_vars(CursorStep)

-----------------------------------------------------------------------------
(* The cursor on its own, over the values of -m/--max-page-size and of the *)
(* service's advertised maximum record count, both sides of the default.   *)

PageSizeInit ==
    /\ env \in [total : 0..MaxTotal,
                max_record_count : {1, MaxPage, DefaultPageSize + 1},
                max_page_size : {-1, 0} \cup (1..(MaxPage + 1)),
                svc : {"good"},
                jsonlines : {TRUE}]
    /\ InitRest

PageSizeSpec == PageSizeInit /\ [][CursorNext]_vars

-----------------------------------------------------------------------------
(* main() next to a state file that was damaged since it was written: cut  *)
(* short, emptied, or not in the format of this version.                   *)

\* the first n characters of a text
Truncated(t, n) == SubSeq(t, 1, n)

DamagedTexts ==
    {<<>>,
     Truncated(Encode(OffsetState(1, 1)), 3),
     Truncated(Encode(OidState(1, <<1, 2>>, 1)), 7),
     <<FormatVersion, 2, 1, 0, 0, 0>>,
     <<FormatVersion + 1, 0, 1, 1, 0, 0>>}

\* what a failed run leaves in the output file after its first feature
PartialOutput(e) ==
    IF e.jsonlines THEN <<JsonDumps(1), NEWLINE>> ELSE <<HEADER, JsonDumps(1)>>

DamagedInit ==
    /\ env \in Envs({"good"}, {1, MaxPage}, BOOLEAN)
    /\ outfile \in {<<>>} \cup (IF env.total > 0 THEN {PartialOutput(env)} ELSE {})
    /\ statefile \in {File(t) : t \in DamagedTexts}
    /\ pc = "idle"
    /\ args = NoArgs
    /\ strategy = "none"
    /\ dumper = NoCursor
    /\ feature = 0
    /\ result = "none"
    /\ log = <<>>
    /\ state = NoState
    /\ yielded = <<>>
    /\ reqs = <<>>
    /\ pages = <<>>

DamagedSpec == DamagedInit /\ [][Next]_vars

-----------------------------------------------------------------------------
(* What one uninterrupted run produces *)

\* the identifiers in the server's order
Uninterrupted(e) == AllOids(e)

RECURSIVE Joined(_)
Joined(ids) ==
    IF ids = <<>> THEN <<>>
    ELSE IF Len(ids) = 1 THEN <<JsonDumps(ids[1])>>
    ELSE <<JsonDumps(ids[1]), SEP>> \o Joined(Tail(ids))

ExpectedCollection(ids) == <<HEADER>> \o Joined(ids) \o <<NEWLINE, FOOTER>>

RECURSIVE ExpectedLines(_)
ExpectedLines(ids) ==
    IF ids = <<>> THEN <<>>
    ELSE <<JsonDumps(ids[1]), NEWLINE>> \o ExpectedLines(Tail(ids))

RECURSIVE ConcatChunks(_)
ConcatChunks(rs) ==
    IF rs = <<>> THEN <<>> ELSE rs[1].chunk \o ConcatChunks(Tail(rs))

Ceil(a, b) == (a + b - 1) \div b

TryFailures == {"TransportError", "WriteError", "PaginationStalled"}

\* the last invocation of main entered the try block and failed there
FailedRun == pc = "idle" /\ result \in TryFailures

\* the last invocation of main ran to its end
CompletedRun == pc = "idle" /\ result = "ok"

\* the position held by the cursor of the latest run that saved a state file
SavedState ==
    LET I == {i \in DOMAIN log : log[i].c /\ log[i].end \in TryFailures}
    IN  IF I = {} THEN NoState
        ELSE log[CHOOSE i \in I : \A j \in I : j <= i].st

-----------------------------------------------------------------------------
(* The claims *)

C2_ResumedCollectionIsWhole ==
    (/\ CompletedRun
     /\ ~env.jsonlines
     /\ Len(log) = 2
     /\ log[1].c /\ ~log[1].resumed
     /\ log[1].end = "TransportError"
     /\ log[1].ids # <<>>
     /\ log[2].c /\ log[2].resumed)
    => outfile = ExpectedCollection(Uninterrupted(env))

C3_Runs ==
    /\ CompletedRun
    /\ env.jsonlines
    /\ ~log[1].resumed
    /\ \A i \in DOMAIN log : log[i].c
    /\ \A i \in 1..(Len(log) - 1) : log[i].end = "TransportError"

\* C3: --jsonlines with -c: after runs that all failed while fetching and a
\* last run that completed, the file holds one line per feature, in the
\* order of an uninterrupted run, each feature once.
C3_JsonLinesResumeExact ==
    C3_Runs => outfile = ExpectedLines(Uninterrupted(env))

C3_Witness ==
    /\ C3_Runs
    /\ Len(log) >= 2
    /\ log[1].ids # <<>>
    /\ log[Len(log)].ids # <<>>

\* C4: with -c, after every run that failed in the try block the state file
\* exists and holds the encoded state of the cursor as it was at the failure,
\* whatever the state file held before.
C4_FailureSavesState ==
    (FailedRun /\ args.to_continue) => statefile = File(Encode(dumper.st))

C4_Witness ==
    /\ FailedRun
    /\ args.to_continue
    /\ state # NoState
    /\ dumper.st # state

\* C5: after a run with -c that completed, the state file does not exist,
\* also when it existed at the start of the run.
C5_NoStateFileAfterSuccess ==
    (CompletedRun /\ args.to_continue) => ~statefile.exists

C5_Witness ==
    /\ CompletedRun
    /\ args.to_continue
    /\ state # NoState
    /\ ~statefile.exists

\* C6: decode(encode(s)) = s for every state a cursor reaches; the text in
\* the state file decodes to the state the failed run saved, and that is the
\* state a resumed run starts from.
C6_RoundTrip ==
    /\ dumper.st # NoState
         => Decode(Encode(dumper.st)) = [err |-> "none", state |-> dumper.st]
    /\ statefile.exists
         => Decode(statefile.text) = [err |-> "none", state |-> SavedState]
    /\ (pc # "idle" /\ state # NoState) => state = SavedState

C6_Witness ==
    /\ pc # "idle"
    /\ state # NoState
    /\ state = SavedState
    /\ \/ state.mode = "offset" /\ state.offset > 0
       \/ state.mode = "oid" /\ state.oids # <<>> /\ Len(state.oids) < env.total

C7_FullOidRun ==
    /\ pc = "stopped"
    /\ result = "none"
    /\ dumper.st.mode = "oid"

\* C7: identifier-batch strategy, full uninterrupted run: the requested
\* chunks, in the order requested, make up the identifier sequence (every
\* identifier in exactly one chunk), no chunk exceeds the page size, and no
\* identifier is outstanding at the end.
C7_OidChunksPartition ==
    C7_FullOidRun =>
        /\ ConcatChunks(reqs) = AllOids(env)
        /\ \A i \in DOMAIN reqs :
             /\ reqs[i].mode = "oid"
             /\ reqs[i].chunk # <<>>
             /\ Len(reqs[i].chunk) <= dumper.ps
        /\ dumper.st.oids = <<>>

C7_Witness ==
    /\ C7_FullOidRun
    /\ Len(reqs) >= 2
    /\ ConcatChunks(reqs) = AllOids(env)

\* C8: offset strategy: the cursor ends after at most
\* ceil(total_records / page_size) page requests, also for an exact multiple
\* and for 0 records.  Violated: the end shows only in a response, which
\* takes one request more for 0 records and after a full last page.
C8_OffsetRequestBound ==
    (/\ pc = "stopped"
     /\ result = "none"
     /\ env.svc = "good"
     /\ dumper.st.mode = "offset")
    => Len(reqs) <= Ceil(env.total, dumper.ps)

C9_RepeatedPage ==
    /\ dumper.st.mode = "offset"
    /\ Len(pages) = 2
    /\ pages[2] # {}
    /\ pages[2] \subseteq pages[1]

\* C9, as amended: offset strategy: a non-empty page whose identifiers were
\* all in the page received just before ends the cursor with
\* PaginationStalled.
C9_RepeatedPageStalls ==
    C9_RepeatedPage => (pc = "except" /\ result = "PaginationStalled")

C9_Witness ==
    /\ C9_RepeatedPage
    /\ result = "PaginationStalled"

\* C9, as claimed: whatever the service answers, a cursor that was started
\* comes to an end.  Violated by a service that alternates between pages.
C9_CursorAlwaysEnds ==
    (pc = "iter") ~> (pc \in {"stopped", "except"})

\* C10: a run resumed from a checkpoint works with the checkpoint's strategy
\* for its cursor and for every request, whatever the current run's
\* --paginate-oid flag and probe select.
C10_ResumeKeepsStrategy ==
    (state # NoState /\ dumper.st # NoState) =>
        /\ dumper.st.mode = state.mode
        /\ \A i \in DOMAIN reqs : reqs[i].mode = state.mode

C10_Witness ==
    /\ state # NoState
    /\ dumper.st # NoState
    /\ strategy # state.mode
    /\ reqs # <<>>
    /\ \A i \in DOMAIN reqs : reqs[i].mode = state.mode

C11_OidSelected == strategy \in {"oid", "unsupported"}

C12_OtherConfig == state # NoState /\ state.fp # args.cfg

\* C12: a run that resumes from a checkpoint whose fingerprint differs from
\* the run's configuration ends with ConfigMismatch at once: no cursor
\* position, no request, no feature yielded, and the output file and the
\* state file are as they were before the run.
C12_ConfigMismatchRejected ==
    [][C12_OtherConfig' =>
         /\ pc = "idle"
         /\ pc' = "idle"
         /\ result' = "ConfigMismatch"
         /\ dumper'.st = NoState
         /\ yielded' = <<>>
         /\ reqs' = <<>>
         /\ outfile' = outfile
         /\ statefile' = statefile]_vars

C12_Witness ==
    /\ C12_OtherConfig
    /\ result = "ConfigMismatch"
    /\ outfile # <<>>
    /\ statefile.exists

\* the state file is there and its text does not decode
C13_Undecodable == statefile.exists /\ Decode(statefile.text).err # "none"

\* C13: a run with -c that finds a state file whose text is empty, cut short
\* or otherwise not decodable ends with the decode error: it does not go on
\* as a fresh download, has no cursor, issues no request, and leaves the
\* output file and the state file as they were.
C13_DamagedStateRejected ==
    [][(pc = "idle" /\ C13_Undecodable /\ args'.to_continue) =>
         /\ pc' = "idle"
         /\ result' = Decode(statefile.text).err
         /\ result' \in {"StateCorrupt", "StateVersionMismatch"}
         /\ dumper' = NoCursor
         /\ state' = NoState
         /\ reqs' = <<>>
         /\ outfile' = outfile
         /\ statefile' = statefile]_vars

C13_Witness ==
    /\ pc = "idle"
    /\ args.to_continue
    /\ result = "StateCorrupt"
    /\ C13_Undecodable
    /\ statefile.text # <<>>
    /\ outfile # <<>>
    /\ dumper = NoCursor

C14_Expected ==
    IF env.max_page_size > 0
    THEN (IF env.max_page_size < env.max_record_count
          THEN env.max_page_size ELSE env.max_record_count)
    ELSE (IF env.max_record_count > DefaultPageSize
          THEN env.max_record_count ELSE DefaultPageSize)

IterFailures == {"TransportError", "PaginationStalled"}

\* C15: a failure raised by next() on the cursor ends the run with that
\* failure, with and without -c: the failing step and every step after it
\* leave the output file as it is, and main ends with the failure.
C15_IterFailureEndsRun ==
    [][/\ (pc \in IterPcs /\ pc' = "except") =>
            /\ result' \in IterFailures
            /\ outfile' = outfile
       /\ (pc = "except" /\ result \in IterFailures) =>
            /\ pc' = "idle"
            /\ result' = result
            /\ outfile' = outfile]_vars

C15_Witness ==
    /\ FailedRun
    /\ result \in IterFailures
    /\ ~args.to_continue
    /\ ~env.jsonlines
    /\ Len(outfile) >= 2
    /\ outfile[Len(outfile)].kind = "feature"

\* a run with -c is at the point where a page request has just failed
C16_RequestFailed == pc = "except" /\ result = "TransportError" /\ args.to_continue

\* the run under way was resumed from the state saved by a run that ended in
\* a failed page request, and has issued a request
C16_ResumedAfterFailedRequest ==
    /\ pc # "idle"
    /\ state # NoState
    /\ reqs # <<>>
    /\ log # <<>>
    /\ log[Len(log)].c
    /\ log[Len(log)].end = "TransportError"

\* C16: when a page request fails, the state of the live cursor holds the
\* position of that request: the offset it asked for, or outstanding
\* identifiers that begin with its chunk; and the first request of the run
\* resumed from that state is the request that failed.
C16_CheckpointAtFailedRequest ==
    /\ C16_RequestFailed =>
         LET rq == reqs[Len(reqs)]
         IN  IF rq.mode = "offset"
             THEN dumper.st.mode = "offset" /\ dumper.st.offset = rq.offset
             ELSE /\ dumper.st.mode = "oid"
                  /\ rq.chunk # <<>>
                  /\ SubSeq(dumper.st.oids, 1, Len(rq.chunk)) = rq.chunk
    /\ C16_ResumedAfterFailedRequest => reqs[1] = log[Len(log)].rq

C16_Witness ==
    /\ C16_ResumedAfterFailedRequest
    /\ log[Len(log)].ids # <<>>
    /\ reqs[1] = log[Len(log)].rq
    /\ yielded # <<>>

\* C17: when the output file is not empty at the start of main, the run goes
\* on only with -c and an existing state file; otherwise main exits with
\* status 1 with no cursor and no request, and the output file and the state
\* file stay as they were.
C17_NonEmptyOutputGuard ==
    [][(pc = "idle" /\ outfile # <<>>) =>
         IF args'.to_continue /\ statefile.exists
         THEN result' # "exit1"
         ELSE /\ result' = "exit1"
              /\ pc' = "idle"
              /\ dumper' = NoCursor
              /\ state' = NoState
              /\ reqs' = <<>>
              /\ outfile' = outfile
              /\ statefile' = statefile]_vars

C17_Witness ==
    /\ pc = "idle"
    /\ result = "exit1"
    /\ args.to_continue
    /\ ~statefile.exists
    /\ outfile # <<>>
    /\ dumper = NoCursor

\* every run so far that entered the try block had -c
C18_RunsWithC ==
    /\ \A i \in DOMAIN log : log[i].c
    /\ pc # "idle" => args.to_continue

\* C18: FeatureCollection mode, runs with -c only, a failure possible at
\* every step of a run: the footer is in the output file at most once and
\* is its last content.  Violated: a failure after line 169 (while the state
\* file is unlinked) is caught by the bare except like any other, the state
\* of the finished cursor is saved, and the run resumed from it writes its
\* newline and footer after the first footer.
C18_FooterOnceAndLast ==
    (~env.jsonlines /\ C18_RunsWithC) =>
        \A i \in DOMAIN outfile : outfile[i] = FOOTER => i = Len(outfile)

\* C19: FeatureCollection mode, any sequence of failed and resumed runs: as
\* soon as the output file holds anything, the header is its first content,
\* and the header is nowhere else in the file.
C19_HeaderOnceAndFirst ==
    (~env.jsonlines /\ outfile # <<>>) =>
        /\ outfile[1] = HEADER
        /\ \A i \in 2..Len(outfile) : outfile[i] # HEADER

\* a resumed run went past the header step and wrote a feature
C19_Witness ==
    /\ ~env.jsonlines
    /\ state # NoState
    /\ pc = "next"
    /\ log # <<>>
    /\ log[Len(log)].ids # <<>>
    /\ Len(outfile) >= 3
    /\ outfile[1] = HEADER
    /\ outfile[Len(outfile)].kind = "feature"

\* C20: no step of a run without -c, from its start to its end, whether it
\* is rejected, fails or completes, changes the state file, and the
\* checkpoint such a run hands to its cursor is none.
C20_NoStateFileWithoutC ==
    [][~args'.to_continue =>
         /\ statefile' = statefile
         /\ state' = NoState
         /\ (pc = "idle" /\ pc' # "idle") =>
               dumper' = NewDumper(env, args'.cfg, strategy', NoState)]_vars

\* a run without -c completed next to the state file of an earlier run
C20_Witness ==
    /\ CompletedRun
    /\ ~args.to_continue
    /\ statefile.exists
    /\ log[Len(log)].ids # <<>>

====
